---- MODULE Spec2Model ----
(***************************************************************************)
(* A model of py4DSTEM's DataCube (process/datastructure/datacube.py) and  *)
(* DiffractionSlice (process/datastructure/diffraction.py).                *)
(*                                                                         *)
(* An ndarray is a record [shape, flat]: its extents and its samples in    *)
(* C (row-major) order.  A Python value stored in a metadata dictionary is *)
(* a record [isstr, s, n]: a str s or an int n.                            *)
(***************************************************************************)
EXTENDS Integers, Sequences, FiniteSets, TLC

VARIABLES data4D, R_Ny, R_Nx, Q_Ny, Q_Nx, R_N, x, y, metadata,
          op, arg, ret, raised

vars == <<data4D, R_Ny, R_Nx, Q_Ny, Q_Nx, R_N, x, y, metadata,
          op, arg, ret, raised>>

cube == <<data4D, R_Ny, R_Nx, Q_Ny, Q_Nx, R_N>>

(***************************************************************************)
(* Bounds of the model.                                                    *)
(***************************************************************************)
MaxR == 2
MaxQ == 3
MaxBin == 3
SampleMod == 7

ScanExtents == 1..MaxR
DiffractionExtents == 1..MaxQ
ScanArgs == 0..MaxR
ViewArgs == (-1)..MaxR

(***************************************************************************)
(* ndarray arithmetic, as numpy performs it.                               *)
(***************************************************************************)
RECURSIVE ProdTo(_, _)
ProdTo(shape, k) == IF k = 0 THEN 1 ELSE ProdTo(shape, k - 1) * shape[k]

\* ndarray.size of an array of the given shape
Size(shape) == ProdTo(shape, Len(shape))

RECURSIVE RavelTo(_, _, _)
RavelTo(shape, idx, k) ==
    IF k = 0 THEN 0 ELSE RavelTo(shape, idx, k - 1) * shape[k] + idx[k]

\* zero-based offset, in C order, of the multi-index idx
Ravel(shape, idx) == RavelTo(shape, idx, Len(shape))

RECURSIVE StrideFrom(_, _)
StrideFrom(shape, k) ==
    IF k >= Len(shape) THEN 1 ELSE shape[k + 1] * StrideFrom(shape, k + 1)

\* the multi-index of the zero-based C-order offset p
Unravel(shape, p) ==
    [k \in 1..Len(shape) |-> (p \div StrideFrom(shape, k)) % shape[k]]

RECURSIVE SumSeq(_)
SumSeq(s) == IF Len(s) = 0 THEN 0 ELSE s[1] + SumSeq(Tail(s))

\* the sample of arr at multi-index idx
At(arr, idx) == arr.flat[Ravel(arr.shape, idx) + 1]

\* the samples a test array of n elements is filled with
Fill(n) == [i \in 1..n |-> ((i - 1) % SampleMod) + 1]

\* ndarray.reshape raises ValueError unless the element counts agree
CanReshape(arr, newshape) == Size(newshape) = Len(arr.flat)

\* ndarray.reshape keeps the samples in C order
Reshape(arr, newshape) == [shape |-> newshape, flat |-> arr.flat]

\* length of the basic slice [:-k] of an axis of n samples; [:-0] is [:0]
SliceEnd(n, k) == IF k = 0 THEN 0 ELSE IF n > k THEN n - k ELSE 0

\* the basic slice arr[:n1, :n2, ...] that keeps the leading newshape block
Take(arr, newshape) ==
    [shape |-> newshape,
     flat  |-> [p \in 1..Size(newshape) |-> At(arr, Unravel(newshape, p - 1))]]

\* arr.sum(axis=(ax1, ax2)) with ax1 < ax2 (one-based axes)
SumAxes(arr, ax1, ax2) ==
    LET s   == arr.shape
        out == [k \in 1..(Len(s) - 2) |->
                   IF k < ax1 THEN s[k]
                   ELSE IF k + 1 < ax2 THEN s[k + 1] ELSE s[k + 2]]
        n1  == s[ax1]
        n2  == s[ax2]
        Full(i, u, v) ==
            [k \in 1..Len(s) |->
                IF k = ax1 THEN u
                ELSE IF k = ax2 THEN v
                ELSE IF k < ax1 THEN i[k]
                ELSE IF k < ax2 THEN i[k - 1] ELSE i[k - 2]]
    IN  [shape |-> out,
         flat  |-> [p \in 1..Size(out) |->
                      LET i == Unravel(out, p - 1)
                      IN  SumSeq([q \in 1..(n1 * n2) |->
                                    At(arr, Full(i, (q - 1) \div n2,
                                                    (q - 1) % n2))])]]

\* arr.T of a 2D array
Transpose(arr) ==
    LET out == <<arr.shape[2], arr.shape[1]>>
    IN  [shape |-> out,
         flat  |-> [p \in 1..Size(out) |->
                      LET i == Unravel(out, p - 1)
                      IN  At(arr, <<i[2], i[1]>>)]]

\* arr[y, x, :, :] for in-range (already normalised) y and x
Frame(arr, yy, xx) ==
    LET out == <<arr.shape[3], arr.shape[4]>>
    IN  [shape |-> out,
         flat  |-> [p \in 1..Size(out) |->
                      LET i == Unravel(out, p - 1)
                      IN  At(arr, <<yy, xx, i[1], i[2]>>)]]

\* an integer index into an axis of n samples raises IndexError unless
\* -n <= i < n
IndexOK(i, n) == -n <= i /\ i < n

\* a negative index counts from the end of the axis
NormIndex(i, n) == IF i < 0 THEN i + n ELSE i

\* the Python int n as a 0-dimensional value
Scalar(n) == [shape |-> <<>>, flat |-> <<n>>]

NoValue == [flag |-> 0, img |-> Scalar(0)]

(***************************************************************************)
(* Python values and hyperspy metadata trees.                              *)
(*                                                                         *)
(* A DictionaryTreeBrowser is the sequence of its items in the order of    *)
(* keys(); an item is a leaf holding a value or a nested tree.  An         *)
(* optional tree is [isNone, tree].                                        *)
(***************************************************************************)
PyStr(str) == [isstr |-> TRUE, s |-> str, n |-> 0]
PyInt(int) == [isstr |-> FALSE, s |-> "", n |-> int]

Leaf(k, v) == [key |-> k, istree |-> FALSE, val |-> v, sub |-> <<>>]
Node(k, t) == [key |-> k, istree |-> TRUE, val |-> PyStr(""), sub |-> t]

None == [isNone |-> TRUE, tree |-> <<>>]
Some(t) == [isNone |-> FALSE, tree |-> t]

\* istree_hs: type(node) == DictionaryTreeBrowser
istree_hs(node) == node.istree

RECURSIVE SearchFrom_ReturnsSubtreeResult(_, _, _)
\* search_hs_tree returning whatever the search of the first subtree returns
SearchFrom_ReturnsSubtreeResult(key, tree, i) ==
    IF i > Len(tree) THEN [found |-> FALSE, val |-> PyInt(-1)]
    ELSE LET node == tree[i]
         IN  IF ~istree_hs(node)
             THEN IF key = node.key
                  THEN [found |-> TRUE, val |-> node.val]
                  ELSE SearchFrom_ReturnsSubtreeResult(key, tree, i + 1)
             ELSE SearchFrom_ReturnsSubtreeResult(key, node.sub, 1)

RECURSIVE SearchFrom(_, _, _)
\* the loop of search_hs_tree over hs_tree.keys(), from the i-th key on
SearchFrom(key, tree, i) ==
    IF i > Len(tree) THEN [found |-> FALSE, val |-> PyInt(-1)]
    ELSE LET node == tree[i]
         IN  IF ~istree_hs(node)
             THEN IF key = node.key
                  THEN [found |-> TRUE, val |-> node.val]
                  ELSE SearchFrom(key, tree, i + 1)
             ELSE LET r == SearchFrom(key, node.sub, 1)
                  IN  IF r.found THEN r ELSE SearchFrom(key, tree, i + 1)

search_hs_tree(key, hs_tree) ==
    IF hs_tree.isNone THEN [found |-> FALSE, val |-> PyInt(-1)]
    ELSE SearchFrom(key, hs_tree.tree, 1)

RECURSIVE FirstFound(_, _, _)
\* the inner loop of get_metadata_from_original_metadata: the first
\* candidate key, from the j-th on, that the tree holds
FirstFound(keys, hs_tree, j) ==
    IF j > Len(keys) THEN [found |-> FALSE, val |-> PyInt(-1)]
    ELSE LET r == search_hs_tree(keys[j], hs_tree)
         IN  IF r.found THEN r ELSE FirstFound(keys, hs_tree, j + 1)

RECURSIVE GetFrom(_, _, _, _)
\* the outer loop of get_metadata_from_original_metadata, from the i-th
\* item of the search dictionary on
GetFrom(hs_tree, metadata_search_dict, metadata_dict, i) ==
    IF i > Len(metadata_search_dict) THEN metadata_dict
    ELSE LET attr  == metadata_search_dict[i].attr
             r     == FirstFound(metadata_search_dict[i].keys, hs_tree, 1)
             value == IF r.found THEN r.val ELSE PyStr("")
         IN  GetFrom(hs_tree, metadata_search_dict,
                     [a \in (DOMAIN metadata_dict) \cup {attr} |->
                         IF a = attr THEN value ELSE metadata_dict[a]],
                     i + 1)

get_metadata_from_original_metadata(hs_tree, metadata_search_dict, metadata_dict) ==
    GetFrom(hs_tree, metadata_search_dict, metadata_dict, 1)

\* an item of a search dictionary
Item(a, ks) == [attr |-> a, keys |-> ks]

original_to_microscope_search_dict ==
    << Item("accelerating_voltage_kV", <<"beam_energy">>),
       Item("camera_length_mm", <<"camera_length">>),
       Item("C2_aperture", <<"">>),
       Item("convergence_semiangle_mrad", <<"">>),
       Item("spot_size", <<"">>),
       Item("scan_rotation_degrees", <<"">>),
       Item("dwell_time_ms", <<"">>),
       Item("scan_size_Ny", <<"">>),
       Item("scan_size_Nx", <<"">>),
       Item("R_pix_size", <<"">>),
       Item("R_units", <<"">>),
       Item("K_pix_size", <<"">>),
       Item("K_units", <<"">>),
       Item("probe_FWHM_nm", <<"">>) >>

original_to_sample_search_dict ==
    << Item("sample_metadata_1", <<"">>),
       Item("sample_metadata_2", <<"">>),
       Item("sample_metadata_3", <<"">>) >>

original_to_user_search_dict ==
    << Item("user_metadata_1", <<"">>),
       Item("user_metadata_2", <<"">>),
       Item("user_metadata_3", <<"">>) >>

original_to_processing_search_dict ==
    << Item("original_filename", <<"original_filename">>) >>

original_to_calibration_search_dict ==
    << Item("calibration_metadata_1", <<"">>),
       Item("calibration_metadata_2", <<"">>),
       Item("calibration_metadata_3", <<"">>) >>

original_to_comments_search_dict ==
    << Item("comments_metadata_1", <<"">>),
       Item("comments_metadata_2", <<"">>),
       Item("comments_metadata_3", <<"">>) >>

\* the six categories and the search dictionary of each
Categories ==
    {"microscope", "sample", "user", "processing", "calibration", "comments"}

SearchDict(cat) ==
    CASE cat = "microscope"  -> original_to_microscope_search_dict
      [] cat = "sample"      -> original_to_sample_search_dict
      [] cat = "user"        -> original_to_user_search_dict
      [] cat = "processing"  -> original_to_processing_search_dict
      [] cat = "calibration" -> original_to_calibration_search_dict
      [] cat = "comments"    -> original_to_comments_search_dict

\* dict()
EmptyDict == [a \in {} |-> PyStr("")]

\* setup_metadata scraping the shortlist first and the complete tree second
setup_metadata_ShortlistFirst(original_metadata_shortlist, original_metadata_all) ==
    LET first == [cat \in Categories |->
                    get_metadata_from_original_metadata(
                        original_metadata_shortlist, SearchDict(cat), EmptyDict)]
        second == [cat \in Categories |->
                    get_metadata_from_original_metadata(
                        original_metadata_all, SearchDict(cat), first[cat])]
    IN  [original    |-> [shortlist |-> original_metadata_shortlist,
                          all       |-> original_metadata_all],
         microscope  |-> second["microscope"],
         sample      |-> second["sample"],
         user        |-> second["user"],
         processing  |-> second["processing"],
         calibration |-> second["calibration"],
         comments    |-> second["comments"]]

\* the metadata object setup_metadata builds: the complete tree is scraped
\* first, then the shortlist, into the same six dictionaries
setup_metadata(original_metadata_shortlist, original_metadata_all) ==
    LET first == [cat \in Categories |->
                    get_metadata_from_original_metadata(
                        original_metadata_all, SearchDict(cat), EmptyDict)]
        second == [cat \in Categories |->
                    get_metadata_from_original_metadata(
                        original_metadata_shortlist, SearchDict(cat), first[cat])]
    IN  [original    |-> [shortlist |-> original_metadata_shortlist,
                          all       |-> original_metadata_all],
         microscope  |-> second["microscope"],
         sample      |-> second["sample"],
         user        |-> second["user"],
         processing  |-> second["processing"],
         calibration |-> second["calibration"],
         comments    |-> second["comments"]]

(***************************************************************************)
(* The metadata trees the model draws from.  Keys come in the order of     *)
(* keys(); every leaf of a tree holds a different value, and the leaves of *)
(* trees built on different bases differ, so a stored value tells which    *)
(* leaf of which tree it was read from.                                    *)
(***************************************************************************)
RootKeys == <<"acquisition", "beam_energy", "camera_length">>
InnerKeys == <<"acquisition", "beam_energy">>

OptItem(present, item) == IF present THEN <<item>> ELSE <<>>

InnerTrees(base, i) ==
    { OptItem(p[1], Leaf(InnerKeys[1], PyInt(base + 10 * i + 1)))
        \o OptItem(p[2], Leaf(InnerKeys[2], PyInt(base + 10 * i + 2)))
      : p \in [1..2 -> BOOLEAN] }

RootItems(base, i) ==
    {<<>>} \cup {<<Leaf(RootKeys[i], PyInt(base + i))>>}
           \cup {<<Node(RootKeys[i], t)>> : t \in InnerTrees(base, i)}

DeepTrees(base) ==
    { << Node("acquisition",
              << Node("acquisition", <<Leaf("beam_energy", PyInt(base + 111))>>),
                 Leaf("beam_energy", PyInt(base + 12)) >>),
         Leaf("beam_energy", PyInt(base + 2)) >>,
      << Node("acquisition",
              << Node("beam_energy", <<Leaf("camera_length", PyInt(base + 123))>>) >>),
         Node("beam_energy", <<Leaf("original_filename", PyInt(base + 24))>>),
         Leaf("camera_length", PyInt(base + 3)) >> }

Trees(base) ==
    { a \o b \o c : a \in RootItems(base, 1), b \in RootItems(base, 2),
                    c \in {<<>>, <<Leaf(RootKeys[3], PyInt(base + 3))>>} }
      \cup DeepTrees(base)

OptTrees(base) == {None} \cup {Some(t) : t \in Trees(base)}

SearchKeys == {"acquisition", "beam_energy", "camera_length", "original_filename", ""}

(***************************************************************************)
(* DataCube                                                                *)
(***************************************************************************)
\* a binning factor is twice/2; isint tells whether its type is int
IntFactor(f) == [twice |-> 2 * f, isint |-> TRUE]
Factors ==
    {IntFactor(f) : f \in 0..MaxBin}
      \cup {[twice |-> h, isint |-> FALSE] : h \in {1, 2 * MaxBin - 1, 2 * MaxBin}}

\* the array set_scan_shape leaves in data4D, and whether the reshape
\* went through
ScanShaped(data, rn, qy, qx, a, b) ==
    IF CanReshape(data, <<rn, qy, qx>>)
       /\ CanReshape(Reshape(data, <<rn, qy, qx>>), <<a, b, qy, qx>>)
    THEN [ok |-> TRUE, data |-> Reshape(Reshape(data, <<rn, qy, qx>>), <<a, b, qy, qx>>)]
    ELSE [ok |-> FALSE, data |-> data]

\* DataCube(data, R_Ny, R_Nx, Q_Ny, Q_Nx, shortlist, all)
NewDataCube(data, ry, rx, qy, qx, shortlist, all) ==
    LET r == ScanShaped(data, ry * rx, qy, qx, ry, rx)
    IN  /\ data4D = r.data
        /\ R_Ny = ry /\ R_Nx = rx
        /\ Q_Ny = qy /\ Q_Nx = qx
        /\ R_N = ry * rx
        /\ x = <<>> /\ y = <<>>
        /\ metadata = setup_metadata(shortlist, all)
        /\ op = "__init__" /\ arg = <<ry, rx, qy, qx>>
        /\ ret = NoValue /\ raised = "None"

\* the raw stack of frames a reader hands to the constructor
RawData(ry, rx, qy, qx) ==
    [shape |-> <<ry * rx, qy, qx>>, flat |-> Fill(ry * rx * qy * qx)]

Init ==
    \E ry \in ScanExtents, rx \in ScanExtents,
       qy \in DiffractionExtents, qx \in DiffractionExtents :
        NewDataCube(RawData(ry, rx, qy, qx), ry, rx, qy, qx, None, None)

\* set_scan_shape recording the requested extents outside the try block
set_scan_shape_RecordsAlways(a, b) ==
    LET r == ScanShaped(data4D, R_N, Q_Ny, Q_Nx, a, b)
    IN  /\ data4D' = r.data
        /\ R_Ny' = a
        /\ R_Nx' = b
        /\ op' = "set_scan_shape" /\ arg' = <<a, b>>
        /\ ret' = NoValue /\ raised' = "None"
        /\ UNCHANGED <<Q_Ny, Q_Nx, R_N, x, y, metadata>>

set_scan_shape(a, b) ==
    LET r == ScanShaped(data4D, R_N, Q_Ny, Q_Nx, a, b)
    IN  /\ data4D' = r.data
        /\ R_Ny' = IF r.ok THEN a ELSE R_Ny
        /\ R_Nx' = IF r.ok THEN b ELSE R_Nx
        /\ op' = "set_scan_shape" /\ arg' = <<a, b>>
        /\ ret' = NoValue /\ raised' = "None"
        /\ UNCHANGED <<Q_Ny, Q_Nx, R_N, x, y, metadata>>

get_diffraction_space_view(yy, xx) ==
    /\ x' = <<xx>> /\ y' = <<yy>>
    /\ ret' = IF IndexOK(yy, data4D.shape[1]) /\ IndexOK(xx, data4D.shape[2])
              THEN [flag |-> 1,
                    img  |-> Transpose(Frame(data4D,
                                             NormIndex(yy, data4D.shape[1]),
                                             NormIndex(xx, data4D.shape[2])))]
              ELSE [flag |-> 0, img |-> Scalar(0)]
    /\ op' = "get_diffraction_space_view" /\ arg' = <<yy, xx>>
    /\ raised' = "None"
    /\ UNCHANGED <<cube, metadata>>

\* what bin_diffraction(bin_q) does to the array: the exception it raises
\* ("None" if it returns) and the array it leaves in data4D
BinDiffraction(data, bin_q) ==
    IF bin_q.twice <= 2 THEN [raised |-> "None", data |-> data]
    ELSE IF ~bin_q.isint THEN [raised |-> "AssertionError", data |-> data]
    ELSE LET f == bin_q.twice \div 2
             s == data.shape
             cut == IF s[3] % f = 0 /\ s[4] % f = 0 THEN data
                    ELSE Take(data, <<s[1], s[2], SliceEnd(s[3], s[3] % f),
                                                  SliceEnd(s[4], s[4] % f)>>)
             six == <<s[1], s[2], s[3] \div f, f, s[4] \div f, f>>
         IN  IF CanReshape(cut, six)
             THEN [raised |-> "None", data |-> SumAxes(Reshape(cut, six), 4, 6)]
             ELSE [raised |-> "ValueError", data |-> cut]

bin_diffraction(bin_q) ==
    LET r == BinDiffraction(data4D, bin_q)
    IN  /\ data4D' = r.data
        /\ raised' = r.raised
        /\ op' = "bin_diffraction" /\ arg' = <<bin_q.twice, bin_q.isint>>
        /\ ret' = NoValue
        /\ UNCHANGED <<R_Ny, R_Nx, Q_Ny, Q_Nx, R_N, x, y, metadata>>

\* what bin_real(bin_r) does to the array
BinReal(data, bin_r) ==
    IF bin_r.twice <= 2 THEN [raised |-> "None", data |-> data]
    ELSE IF ~bin_r.isint THEN [raised |-> "AssertionError", data |-> data]
    ELSE LET f == bin_r.twice \div 2
             s == data.shape
             cut == IF s[1] % f = 0 /\ s[2] % f = 0 THEN data
                    ELSE Take(data, <<SliceEnd(s[1], s[1] % f),
                                      SliceEnd(s[2], s[2] % f), s[3], s[4]>>)
             six == <<s[1] \div f, f, s[2] \div f, f, s[3], s[4]>>
         IN  IF CanReshape(cut, six)
             THEN [raised |-> "None", data |-> SumAxes(Reshape(cut, six), 2, 4)]
             ELSE [raised |-> "ValueError", data |-> cut]

bin_real(bin_r) ==
    LET r == BinReal(data4D, bin_r)
    IN  /\ data4D' = r.data
        /\ raised' = r.raised
        /\ op' = "bin_real" /\ arg' = <<bin_r.twice, bin_r.isint>>
        /\ ret' = NoValue
        /\ UNCHANGED <<R_Ny, R_Nx, Q_Ny, Q_Nx, R_N, x, y, metadata>>

(***************************************************************************)
(* DiffractionSlice                                                        *)
(***************************************************************************)
\* reading obj.name raises AttributeError unless the attribute was set
HasAttr(obj, name) == name \in DOMAIN obj

\* DiffractionSlice(parentDataCube, data): the exception raised ("None" if
\* the object is built) and the attributes set on the new object
NewDiffractionSlice(parentDataCube, data) ==
    LET self1 == [a \in {"parentDataCube"} |-> parentDataCube]
    IN  IF ~HasAttr(self1, "Q_Nx")
        THEN [raised |-> "AttributeError", self |-> self1]
        ELSE LET self2 == [parentDataCube |-> parentDataCube,
                           Q_Ny |-> parentDataCube.Q_Ny,
                           Q_Nx |-> self1["Q_Nx"]]
             IN  IF data.shape # <<self2.Q_Ny, self2.Q_Nx>>
                 THEN [raised |-> "AssertionError", self |-> self2]
                 ELSE [raised |-> "None",
                       self   |-> [parentDataCube |-> parentDataCube,
                                   Q_Ny |-> self2.Q_Ny, Q_Nx |-> self2.Q_Nx,
                                   data2D |-> data]]

\* the 2D arrays a DiffractionSlice is built from
SliceData == { [shape |-> <<p, q>>, flat |-> Fill(p * q)] :
                 p \in DiffractionExtents, q \in DiffractionExtents }

DiffractionSlice(data) ==
    LET r == NewDiffractionSlice([Q_Ny |-> Q_Ny, Q_Nx |-> Q_Nx], data)
    IN  /\ raised' = r.raised
        /\ ret' = IF r.raised = "None" THEN r.self ELSE NoValue
        /\ op' = "DiffractionSlice" /\ arg' = data.shape
        /\ UNCHANGED <<cube, x, y, metadata>>

\* construction, then reshapes and binnings
Next ==
    \/ \E a \in ScanArgs, b \in ScanArgs : set_scan_shape(a, b)
    \/ \E bin_q \in Factors : bin_diffraction(bin_q)
    \/ \E bin_r \in Factors : bin_real(bin_r)

Spec == Init /\ [][Next]_vars

\* construction, then reshapes, binnings, diffraction views and slices
NextView ==
    \/ \E a \in ScanArgs, b \in ScanArgs : set_scan_shape(a, b)
    \/ \E bin_q \in Factors : bin_diffraction(bin_q)
    \/ \E bin_r \in Factors : bin_real(bin_r)
    \/ \E yy \in ViewArgs, xx \in ViewArgs : get_diffraction_space_view(yy, xx)
    \/ \E data \in SliceData : DiffractionSlice(data)

SpecView == Init /\ [][NextView]_vars

(***************************************************************************)
(* Metadata: construction from two metadata trees, then searches of the    *)
(* trees the DataCube keeps.                                               *)
(***************************************************************************)
InitMeta ==
    \E all \in OptTrees(1000), shortlist \in OptTrees(2000) :
        NewDataCube(RawData(1, 1, 1, 1), 1, 1, 1, 1, shortlist, all)

SearchHsTree(key, which) ==
    /\ ret' = search_hs_tree(key, metadata.original[which])
    /\ op' = "search_hs_tree" /\ arg' = <<key, which>>
    /\ raised' = "None"
    /\ UNCHANGED <<cube, x, y, metadata>>

NextMeta ==
    \E key \in SearchKeys, which \in {"all", "shortlist"} : SearchHsTree(key, which)

SpecMeta == InitMeta /\ [][NextMeta]_vars

(***************************************************************************)
(* Reference notions the properties are stated with.                       *)
(***************************************************************************)
\* the diffraction extents and the element count of the stored array
CurQy == data4D.shape[3]
CurQx == data4D.shape[4]
Count == Len(data4D.flat)

\* the sum of the f x f block of input samples of bin (i, j) of the
\* diffraction axes, at scan position (r1, r2)
BlockSumQ(arr, f, r1, r2, i, j) ==
    SumSeq([q \in 1..(f * f) |->
              At(arr, <<r1, r2, i * f + ((q - 1) \div f), j * f + ((q - 1) % f)>>)])

\* the same for bin (i, j) of the scan axes, at diffraction pixel (k, l)
BlockSumR(arr, f, i, j, k, l) ==
    SumSeq([q \in 1..(f * f) |->
              At(arr, <<i * f + ((q - 1) \div f), j * f + ((q - 1) % f), k, l>>)])

\* arr binned by f over its diffraction axes, bin by bin
BinnedQ(arr, f) ==
    LET s   == arr.shape
        out == <<s[1], s[2], s[3] \div f, s[4] \div f>>
    IN  [shape |-> out,
         flat  |-> [p \in 1..Size(out) |->
                      LET i == Unravel(out, p - 1)
                      IN  BlockSumQ(arr, f, i[1], i[2], i[3], i[4])]]

\* arr binned by f over its scan axes, bin by bin
BinnedR(arr, f) ==
    LET s   == arr.shape
        out == <<s[1] \div f, s[2] \div f, s[3], s[4]>>
    IN  [shape |-> out,
         flat  |-> [p \in 1..Size(out) |->
                      LET i == Unravel(out, p - 1)
                      IN  BlockSumR(arr, f, i[1], i[2], i[3], i[4])]]

\* the total of the samples of arr whose multi-index lies below lim
RegionTotal(arr, lim) ==
    SumSeq([p \in 1..Size(lim) |-> At(arr, Unravel(lim, p - 1))])

RECURSIVE Leaves(_)
\* the leaves of a tree in depth-first pre-order
Leaves(tree) ==
    IF Len(tree) = 0 THEN <<>>
    ELSE (IF tree[1].istree THEN Leaves(tree[1].sub) ELSE <<tree[1]>>)
           \o Leaves(Tail(tree))

\* the positions of the leaves named key, in pre-order
Hits(key, hs_tree) ==
    IF hs_tree.isNone THEN {}
    ELSE {i \in 1..Len(Leaves(hs_tree.tree)) : Leaves(hs_tree.tree)[i].key = key}

Min(S) == CHOOSE m \in S : \A n \in S : m <= n

\* the value of the first leaf named key
FirstLeafValue(key, hs_tree) == Leaves(hs_tree.tree)[Min(Hits(key, hs_tree))].val

\* the candidate keys of a field that the tree holds as a leaf
FoundCandidates(keys, hs_tree) ==
    {j \in 1..Len(keys) : Hits(keys[j], hs_tree) # {}}

\* the tree resolves the field
Resolves(keys, hs_tree) == FoundCandidates(keys, hs_tree) # {}

\* the value the tree yields for the field: that of its first found candidate
ResolvedValue(keys, hs_tree) ==
    FirstLeafValue(keys[Min(FoundCandidates(keys, hs_tree))], hs_tree)

\* the fields of the schema: category and position in its search dictionary
Fields ==
    {f \in Categories \X (1..Len(original_to_microscope_search_dict)) :
        f[2] <= Len(SearchDict(f[1]))}

FieldAttr(f) == SearchDict(f[1])[f[2]].attr
FieldKeys(f) == SearchDict(f[1])[f[2]].keys
Stored(f) == metadata[f[1]][FieldAttr(f)]

(***************************************************************************)
(* Properties                                                              *)
(***************************************************************************)

\* C1: whenever a call has completed, the shape of the stored array equals
\* the recorded extents (R_Ny, R_Nx, Q_Ny, Q_Nx).
C1_ShapeEqualsExtents ==
    raised = "None" => data4D.shape = <<R_Ny, R_Nx, Q_Ny, Q_Nx>>

\* C2: a bin_diffraction or bin_real call that raises leaves the stored
\* array and the recorded extents as they were before the call.
C2_BinAllOrNothing ==
    [][ (op' \in {"bin_diffraction", "bin_real"} /\ raised' # "None")
          => UNCHANGED cube ]_vars

\* C3: binning by an integer factor f > 1 completes and leaves the array
\* whose binned extents are the floors of the old ones over f and whose
\* samples are the sums of the f x f blocks of the old array; its total is
\* the total of the old array over the region that is kept.
C3_BinSumsBlocks ==
    [][ \A f \in 2..MaxBin :
          /\ (op' = "bin_diffraction" /\ arg' = <<2 * f, TRUE>>)
               => /\ raised' = "None"
                  /\ data4D' = BinnedQ(data4D, f)
                  /\ SumSeq(data4D'.flat) =
                       RegionTotal(data4D,
                           <<data4D.shape[1], data4D.shape[2],
                             f * (data4D.shape[3] \div f),
                             f * (data4D.shape[4] \div f)>>)
          /\ (op' = "bin_real" /\ arg' = <<2 * f, TRUE>>)
               => /\ raised' = "None"
                  /\ data4D' = BinnedR(data4D, f)
                  /\ SumSeq(data4D'.flat) =
                       RegionTotal(data4D,
                           <<f * (data4D.shape[1] \div f),
                             f * (data4D.shape[2] \div f),
                             data4D.shape[3], data4D.shape[4]>>) ]_vars

\* C4: set_scan_shape(a, b) with a*b*Q_y*Q_x equal to the element count of
\* the stored array, Q_y and Q_x being the diffraction extents of that
\* array, reshapes the array to (a, b, Q_y, Q_x) and records (a, b).
C4_CompatibleReshapeSucceeds ==
    [][ \A a \in ScanArgs, b \in ScanArgs :
          (op' = "set_scan_shape" /\ arg' = <<a, b>>
             /\ a * b * CurQy * CurQx = Count)
            => /\ raised' = "None"
               /\ data4D' = [shape |-> <<a, b, CurQy, CurQx>>, flat |-> data4D.flat]
               /\ R_Ny' = a /\ R_Nx' = b ]_vars

\* C5: set_scan_shape(a, b) with a*b*Q_y*Q_x different from the element
\* count of the stored array (with Q_y, Q_x read as the recorded or as the
\* array's diffraction extents) raises nothing and leaves the array and the
\* recorded scan extents unchanged.
C5_IncompatibleReshapeIsNoOp ==
    [][ \A a \in ScanArgs, b \in ScanArgs :
          (op' = "set_scan_shape" /\ arg' = <<a, b>>
             /\ (a * b * Q_Ny * Q_Nx # Count \/ a * b * CurQy * CurQx # Count))
            => /\ raised' = "None"
               /\ data4D' = data4D
               /\ R_Ny' = R_Ny /\ R_Nx' = R_Nx ]_vars

\* an incompatible set_scan_shape has been called with extents other than
\* the recorded ones
C5_Witness ==
    /\ op = "set_scan_shape"
    /\ arg[1] * arg[2] * Q_Ny * Q_Nx # Count
    /\ arg[1] * arg[2] > 0
    /\ <<R_Ny, R_Nx>> # arg

\* C6: a field that both the complete tree and the shortlist resolve is
\* stored with the value resolved from the shortlist.
C6_ShortlistOverrides ==
    \A f \in Fields :
        (Resolves(FieldKeys(f), metadata.original.all)
           /\ Resolves(FieldKeys(f), metadata.original.shortlist))
          => Stored(f) = ResolvedValue(FieldKeys(f), metadata.original.shortlist)

\* both trees resolve the accelerating voltage, at different depths
C6_Witness ==
    /\ Resolves(<<"beam_energy">>, metadata.original.all)
    /\ Resolves(<<"beam_energy">>, metadata.original.shortlist)
    /\ ResolvedValue(<<"beam_energy">>, metadata.original.all).n < 1010
    /\ metadata.microscope["accelerating_voltage_kV"].n > 2010

\* C7: a field that the complete tree resolves and the shortlist does not
\* is stored with the value resolved from the complete tree.
C7_UnresolvedShortlistKeepsFull ==
    \A f \in Fields :
        (Resolves(FieldKeys(f), metadata.original.all)
           /\ ~Resolves(FieldKeys(f), metadata.original.shortlist))
          => Stored(f) = ResolvedValue(FieldKeys(f), metadata.original.all)

\* C8: search_hs_tree returns (True, v), v the value of the first leaf named
\* key in depth-first pre-order, and (False, -1) if the tree is absent or
\* has no leaf of that name.
C8_SearchFindsFirstLeaf ==
    op = "search_hs_tree" =>
        LET hs_tree == metadata.original[arg[2]]
        IN  IF Hits(arg[1], hs_tree) = {}
            THEN ret = [found |-> FALSE, val |-> PyInt(-1)]
            ELSE ret = [found |-> TRUE, val |-> FirstLeafValue(arg[1], hs_tree)]

\* a search that found a leaf nested two subtrees deep in a tree that holds
\* more leaves of that name, later in pre-order and nearer to the root
C8_Witness ==
    /\ op = "search_hs_tree"
    /\ ret.found
    /\ ret.val.n % 1000 > 100
    /\ Cardinality(Hits(arg[1], metadata.original[arg[2]])) > 2

\* C9: get_diffraction_space_view(y, x) never raises; it returns (0, 0)
\* unless 0 <= y < R_y and 0 <= x < R_x for the scan extents of the stored
\* array, and otherwise the transposed diffraction image at (y, x) and 1.
C9_ViewFlagsOutOfRange ==
    op = "get_diffraction_space_view" =>
        /\ raised = "None"
        /\ IF 0 <= arg[1] /\ arg[1] < data4D.shape[1]
              /\ 0 <= arg[2] /\ arg[2] < data4D.shape[2]
           THEN /\ ret.flag = 1
                /\ ret.img.shape = <<CurQx, CurQy>>
                /\ \A i \in 0..(CurQx - 1), j \in 0..(CurQy - 1) :
                      At(ret.img, <<i, j>>) = At(data4D, <<arg[1], arg[2], j, i>>)
           ELSE ret = [flag |-> 0, img |-> Scalar(0)]

\* C10: DiffractionSlice(parent, data) builds the slice, recording the
\* parent's diffraction extents and the data, when data.shape equals
\* (Q_Ny, Q_Nx) of the parent, and raises AssertionError otherwise.
C10_SliceChecksShape ==
    op = "DiffractionSlice" =>
        IF arg = <<Q_Ny, Q_Nx>>
        THEN /\ raised = "None"
             /\ ret.Q_Ny = Q_Ny /\ ret.Q_Nx = Q_Nx
             /\ ret.data2D.shape = arg
        ELSE raised = "AssertionError"

====
